---- MODULE Spec2Model ----
(***************************************************************************)
(* ServiceKit (src/src/index.ts): Reply, pathToMatcher, readAll and the    *)
(* HttpServer request lifecycle, as a state machine.                       *)
(*                                                                         *)
(* Conventions.  A JavaScript string is the sequence of its code points,   *)
(* a Buffer the sequence of its bytes.  A JavaScript value whose kind the  *)
(* code tests (null, undefined, truthiness, typeof) is a record tagged by  *)
(* t: [t |-> "null"], [t |-> "undefined"], [t |-> "string", v |-> s],      *)
(* [t |-> "buffer", v |-> bytes], [t |-> "object", v |-> mapping], ...     *)
(* Header names and values are never computed on and stay TLA+ strings.    *)
(***************************************************************************)
EXTENDS Integers, Sequences, FiniteSets, TLC

(* ------------------------------ bounds -------------------------------- *)

\* Longest route list built by on().
MaxRoutes == 2

\* Most 'data' events one request body stream emits.
MaxChunks == 2

\* Longest textual payload given to Reply.from in FromSpec.
MaxStrLen == 2

(* ------------------------- JavaScript values -------------------------- *)

Null == [t |-> "null"]

Undefined == [t |-> "undefined"]

Str(s) == [t |-> "string", v |-> s]

Buf(bytes) == [t |-> "buffer", v |-> bytes]

Obj(m) == [t |-> "object", v |-> m]

Num(n) == [t |-> "number", v |-> n]

\* ToBoolean: what `if (x)`, `!x` and `x || y` test.
Truthy(x) ==
  CASE x.t \in {"null", "undefined"} -> FALSE
    [] x.t = "string" -> x.v # <<>>
    [] x.t = "number" -> x.v # 0
    [] OTHER -> TRUE

\* The empty object literal {}.
EmptyMap == <<>>

\* m[k] = v on a plain object.
Put(m, k, v) == [x \in DOMAIN m \cup {k} |-> IF x = k THEN v ELSE m[x]]

(* ------------------------------ strings ------------------------------- *)

SLASH == 47

COLON == 58

QUESTION == 63

\* String.prototype.toUpperCase on the ASCII letters.
toUpperCase(s) == [i \in 1..Len(s) |-> IF s[i] \in 97..122 THEN s[i] - 32 ELSE s[i]]

RECURSIVE split(_, _)
\* String.prototype.split(sep) for a one-character separator.
split(s, sep) ==
  IF \A i \in 1..Len(s) : s[i] # sep
    THEN <<s>>
    ELSE LET i == CHOOSE j \in 1..Len(s) : s[j] = sep /\ \A k \in 1..(j - 1) : s[k] # sep
         IN  <<SubSeq(s, 1, i - 1)>> \o split(SubSeq(s, i + 1, Len(s)), sep)

\* The array with its empty strings kept.
filterBooleanKeepsAll(arr) == arr

\* Array.prototype.filter(Boolean) on an array of strings.
filterBoolean(arr) == SelectSeq(arr, LAMBDA x : Truthy(Str(x)))

startsWith(s, c) == Len(s) >= 1 /\ s[1] = c

\* The sample with its ':' kept.
substr0(s) == s

\* String.prototype.substr(1).
substr1(s) == SubSeq(s, 2, Len(s))

RECURSIVE Utf8(_)
\* Buffer.from(s, 'utf-8'): the UTF-8 encoding of the code points of s.
Utf8(s) ==
  IF s = <<>> THEN <<>>
  ELSE LET c == Head(s)
           enc == IF c < 128 THEN <<c>>
                  ELSE IF c < 2048 THEN <<192 + (c \div 64), 128 + (c % 64)>>
                  ELSE <<224 + (c \div 4096), 128 + ((c \div 64) % 64), 128 + (c % 64)>>
       IN  enc \o Utf8(Tail(s))

RECURSIVE concatAll(_)
\* Buffer.concat(list).
concatAll(list) == IF list = <<>> THEN <<>> ELSE Head(list) \o concatAll(Tail(list))

(* --------------------------- JSON.stringify --------------------------- *)

QUOTE == 34

BACKSLASH == 92

RECURSIVE jsonEscape(_)
jsonEscape(s) ==
  IF s = <<>> THEN <<>>
  ELSE (IF Head(s) \in {QUOTE, BACKSLASH} THEN <<BACKSLASH, Head(s)>> ELSE <<Head(s)>>)
       \o jsonEscape(Tail(s))

jsonQuote(s) == <<QUOTE>> \o jsonEscape(s) \o <<QUOTE>>

RECURSIVE jsonDigits(_)
jsonDigits(n) == IF n < 10 THEN <<48 + n>> ELSE jsonDigits(n \div 10) \o <<48 + (n % 10)>>

\* A property value: a string or a non-negative integer.
jsonValue(x) == IF x.t = "string" THEN jsonQuote(x.v) ELSE jsonDigits(x.v)

RECURSIVE jsonMembers(_)
jsonMembers(entries) ==
  IF entries = <<>> THEN <<>>
  ELSE jsonQuote(Head(entries).key) \o <<COLON>> \o jsonValue(Head(entries).val)
       \o (IF Len(entries) > 1 THEN <<44>> ELSE <<>>) \o jsonMembers(Tail(entries))

\* JSON.stringify of a flat object given as its properties in insertion order.
JSONstringify(entries) == <<123>> \o jsonMembers(entries) \o <<125>>

(* ------------------------------- Reply -------------------------------- *)

\* new Reply(data, { status, headers })
NewReply(data, status, headers) == [status |-> status, data |-> data, headers |-> headers]

\* Reply.from keeping the payload itself, to be serialized when written.
Reply_fromLazy(obj, rest) ==
  LET status == IF Len(rest) = 0 THEN 200 ELSE rest[1]
  IN  IF obj.t = "string"
        THEN NewReply(Buf(Utf8(obj.v)), status,
                      Obj("Content-Type" :> "plain/text; charset=utf-8"))
        ELSE NewReply(obj, status,
                      Obj("Content-Type" :> "application/json; charset=utf-8"))

\* Reply.from(obj, status = 200); rest is the argument list after obj.
Reply_from(obj, rest) ==
  LET status == IF Len(rest) = 0 THEN 200 ELSE rest[1]
  IN  IF obj.t = "string"
        THEN NewReply(Buf(Utf8(obj.v)), status,
                      Obj("Content-Type" :> "plain/text; charset=utf-8"))
        ELSE NewReply(Buf(Utf8(JSONstringify(obj.v))), status,
                      Obj("Content-Type" :> "application/json; charset=utf-8"))

(* ---------------------------- pathToMatcher --------------------------- *)

RECURSIVE matchLoop(_, _, _, _)
\* The for loop of the matcher, from index i with the mapping built so far.
matchLoop(samples, parts, i, pathParams) ==
  IF i > Len(samples) THEN Obj(pathParams)
  ELSE IF startsWith(samples[i], COLON)
         THEN matchLoop(samples, parts, i + 1, Put(pathParams, substr1(samples[i]), parts[i]))
       ELSE IF samples[i] # parts[i] THEN Null
       ELSE matchLoop(samples, parts, i + 1, pathParams)

\* pathToMatcher(path)(pathname): a mapping, or null.
pathToMatcher(path, pathname) ==
  LET samples == filterBoolean(split(path, SLASH))
      parts == filterBoolean(split(pathname, SLASH))
  IN  IF Len(parts) # Len(samples) THEN Null
      ELSE matchLoop(samples, parts, 1, EmptyMap)

(* --------------------------- ServerResponse --------------------------- *)

\* What one response has put on the wire, in order: status lines ("head"),
\* body writes ("write") and finalizations ("end").
NewResponse == [headersSent |-> FALSE, wire |-> <<>>]

HeadEv(status, headers) == [op |-> "head", status |-> status, headers |-> headers]

WriteEv(bytes) == [op |-> "write", bytes |-> bytes]

EndEv == [op |-> "end"]

\* The message of a library error is abbreviated to its error code.
ErrHeadersSent ==
  Obj("message" :> Str(<<69, 82, 82, 95, 72, 84, 84, 80, 95, 72, 69, 65, 68, 69, 82,
                         83, 95, 83, 69, 78, 84>>))

ErrInvalidArgType ==
  Obj("message" :> Str(<<69, 82, 82, 95, 73, 78, 86, 65, 76, 73, 68, 95, 65, 82, 71,
                         95, 84, 89, 80, 69>>))

\* The result of a call that may throw: the response after it, and what it threw.
Returned(rs) == [res |-> rs, threw |-> FALSE, err |-> Undefined]

Threw(rs, err) == [res |-> rs, threw |-> TRUE, err |-> err]

\* writeHead on a response that lets the head be written again.
writeHeadUnguarded(rs, status, headers) ==
  Returned([rs EXCEPT !.headersSent = TRUE,
                      !.wire = Append(@, HeadEv(status, headers))])

\* res.writeHead(status, null, headers); res.writeHead(status).
writeHead(rs, status, headers) ==
  IF rs.headersSent THEN Threw(rs, ErrHeadersSent)
  ELSE Returned([rs EXCEPT !.headersSent = TRUE,
                           !.wire = Append(@, HeadEv(status, headers))])

\* The bytes res.write puts on the wire for a string or a Buffer.
chunkBytes(chunk) == IF chunk.t = "string" THEN Utf8(chunk.v) ELSE chunk.v

\* res.write(chunk)
write(rs, chunk) ==
  IF chunk.t \notin {"string", "buffer"} THEN Threw(rs, ErrInvalidArgType)
  ELSE LET sent == IF rs.headersSent THEN rs ELSE writeHead(rs, 200, Undefined).res
       IN  Returned([sent EXCEPT !.wire = Append(@, WriteEv(chunkBytes(chunk)))])

\* res.end()
end(rs) ==
  LET sent == IF rs.headersSent THEN rs ELSE writeHead(rs, 200, Undefined).res
  IN  [sent EXCEPT !.wire = Append(@, EndEv)]

(* ------------------------------ readAll ------------------------------- *)

\* The listener with the operands of Buffer.concat swapped.
onDataPrepends(result, chunk) ==
  IF Truthy(result) THEN Buf(concatAll(<<chunk, result.v>>))
  ELSE Buf(concatAll(<<chunk>>))

\* The 'data' listener of readAll: the accumulator after one chunk.
onData(result, chunk) ==
  IF Truthy(result) THEN Buf(concatAll(<<result.v, chunk>>))
  ELSE Buf(concatAll(<<chunk>>))

(* ----------------------------- HttpServer ----------------------------- *)

\* supportedHttpMethods with 'PATCH' let in.
supportedHttpMethodsWithPatch ==
  << <<79, 80, 84, 73, 79, 78, 83>>, <<71, 69, 84>>, <<80, 79, 83, 84>>,
     <<80, 85, 84>>, <<68, 69, 76, 69, 84, 69>>, <<80, 65, 84, 67, 72>> >>

supportedHttpMethods ==
  << <<79, 80, 84, 73, 79, 78, 83>>, <<71, 69, 84>>, <<80, 79, 83, 84>>,
     <<80, 85, 84>>, <<68, 69, 76, 69, 84, 69>> >>

\* Array.prototype.includes
includes(arr, x) == \E i \in 1..Len(arr) : arr[i] = x

POST == <<80, 79, 83, 84>>

PUT == <<80, 85, 84>>

\* A handler function, known by the number of the on() call that registered it.
Fn(id) == [t |-> "function", v |-> id]

\* The comparator with its operands swapped: shortest pattern first.
compareRoutesAscending(a, b) == Len(a.path) - Len(b.path)

\* The comparator of serve(): (a, b) => b.path.length - a.path.length.
compareRoutes(a, b) == Len(b.path) - Len(a.path)

RECURSIVE insertRouteUnstable(_, _)
\* x placed in front of the entries that compare equal to it.
insertRouteUnstable(sorted, x) ==
  IF sorted = <<>> THEN <<x>>
  ELSE IF compareRoutes(Head(sorted), x) < 0
         THEN <<Head(sorted)>> \o insertRouteUnstable(Tail(sorted), x)
       ELSE <<x>> \o sorted

RECURSIVE insertRoute(_, _)
\* x placed behind every entry that does not sort after it.
insertRoute(sorted, x) ==
  IF sorted = <<>> THEN <<x>>
  ELSE IF compareRoutes(Head(sorted), x) <= 0
         THEN <<Head(sorted)>> \o insertRoute(Tail(sorted), x)
       ELSE <<x>> \o sorted

\* serve() without the call of sort.
sortRoutesSkipped(rts) == rts

RECURSIVE sortRoutes(_)
\* Array.prototype.sort with compareRoutes (a stable sort).
sortRoutes(rts) ==
  IF rts = <<>> THEN <<>>
  ELSE insertRoute(sortRoutes(SubSeq(rts, 1, Len(rts) - 1)), rts[Len(rts)])

RECURSIVE lookupAssignsFirst(_, _, _, _)
\* The loop with `handler = route.handler` moved in front of the test.
lookupAssignsFirst(rts, pathname, i, pathParams) ==
  IF i > Len(rts)
    THEN [handler |-> IF rts = <<>> THEN Undefined ELSE rts[Len(rts)].handler,
          pathParams |-> pathParams, calls |-> i - 1]
  ELSE LET m == pathToMatcher(rts[i].path, pathname)
       IN  IF Truthy(m)
             THEN [handler |-> rts[i].handler, pathParams |-> m, calls |-> i]
           ELSE lookupAssignsFirst(rts, pathname, i + 1, m)

RECURSIVE lookupSkipsEmpty(_, _, _, _)
\* The loop taking a match with no captured parameter for no match.
lookupSkipsEmpty(rts, pathname, i, pathParams) ==
  IF i > Len(rts)
    THEN [handler |-> Undefined, pathParams |-> pathParams, calls |-> i - 1]
  ELSE LET m == pathToMatcher(rts[i].path, pathname)
       IN  IF Truthy(m) /\ DOMAIN m.v # {}
             THEN [handler |-> rts[i].handler, pathParams |-> m, calls |-> i]
           ELSE lookupSkipsEmpty(rts, pathname, i + 1, m)

RECURSIVE lookup(_, _, _, _)
\* The for..of loop of handleRequest from entry i: the handler and pathParams
\* it leaves, and how many matchers it ran.
lookup(rts, pathname, i, pathParams) ==
  IF i > Len(rts)
    THEN [handler |-> Undefined, pathParams |-> pathParams, calls |-> i - 1]
  ELSE LET m == pathToMatcher(rts[i].path, pathname)
       IN  IF Truthy(m)
             THEN [handler |-> rts[i].handler, pathParams |-> m, calls |-> i]
           ELSE lookup(rts, pathname, i + 1, m)

\* new URL(req.url, base): the pathname and the query of a request target.
parseURL(url) ==
  LET cut == IF \E i \in 1..Len(url) : url[i] = QUESTION
               THEN CHOOSE i \in 1..Len(url) :
                      url[i] = QUESTION /\ \A k \in 1..(i - 1) : url[k] # QUESTION
               ELSE Len(url) + 1
      path == SubSeq(url, 1, cut - 1)
  IN  [pathname |-> IF path = <<>> THEN <<SLASH>> ELSE path,
       search |-> SubSeq(url, cut, Len(url))]

\* Object.freeze({ data, headers, method, pathname, pathParams, searchParams })
newContext(data, headers, method, pathname, pathParams, searchParams) ==
  [t |-> "object", frozen |-> TRUE,
   v |-> [data |-> data, headers |-> headers, method |-> method, pathname |-> pathname,
          pathParams |-> pathParams, searchParams |-> searchParams]]

\* (err as Error).message
errMessage(err) ==
  IF err.t = "object" /\ "message" \in DOMAIN err.v THEN err.v["message"] ELSE Undefined

\* The catch block writing the status alone.
catchBlockStatusOnly(rs, err) == writeHead(rs, 500, Undefined)

\* The catch block without `|| 'unknown error'`.
catchBlockNoFallback(rs, err) ==
  LET h == writeHead(rs, 500, Undefined)
  IN  IF h.threw THEN h
      ELSE IF err.t \in {"null", "undefined"} THEN Threw(h.res, Obj(EmptyMap))
      ELSE write(h.res, errMessage(err))

\* The catch block of handleRequest.
catchBlock(rs, err) ==
  LET h == writeHead(rs, 500, Undefined)
  IN  IF h.threw THEN h
      ELSE IF err.t \in {"null", "undefined"} THEN Threw(h.res, Obj(EmptyMap))
      ELSE LET m == errMessage(err)
           IN  write(h.res, IF Truthy(m) THEN m
                            ELSE Str(<<117, 110, 107, 110, 111, 119, 110, 32,
                                       101, 114, 114, 111, 114>>))

\* The try block with res.writeHead(reply.status), the headers left out.
tryBlockDropsHeaders(rs, outcome) ==
  IF outcome.t = "throws" THEN Threw(rs, outcome.v)
  ELSE LET reply == outcome.v
           h == writeHead(rs, reply.status, Undefined)
       IN  IF h.threw THEN h
           ELSE IF Truthy(reply.data) THEN write(h.res, reply.data)
           ELSE h

\* The try block of handleRequest once the handler has settled.
tryBlock(rs, outcome) ==
  IF outcome.t = "throws" THEN Threw(rs, outcome.v)
  ELSE LET reply == outcome.v
           h == writeHead(rs, reply.status, reply.headers)
       IN  IF h.threw THEN h
           ELSE IF Truthy(reply.data) THEN write(h.res, reply.data)
           ELSE h

\* res.end() after the try statement instead of in its finally block.
respondNoFinally(rs, outcome) ==
  LET t == tryBlock(rs, outcome)
      c == IF t.threw THEN catchBlock(t.res, t.err) ELSE t
  IN  [res |-> IF c.threw THEN c.res ELSE end(c.res), rejected |-> c.threw]

\* try { ... } catch { ... } finally { res.end() }
respond(rs, outcome) ==
  LET t == tryBlock(rs, outcome)
      c == IF t.threw THEN catchBlock(t.res, t.err) ELSE t
  IN  [res |-> end(c.res), rejected |-> c.threw]

(* ------------------------------- inputs ------------------------------- *)

\* The request slots of the transport.
Requests == {1, 2}

\* '/', '/a/b', '/a/:x', '/:y/b'
Patterns == {<<47>>, <<47, 97, 47, 98>>, <<47, 97, 47, 58, 120>>, <<47, 58, 121, 47, 98>>}

\* 'GET', 'post', 'PUT', 'PATCH'
Methods == {<<71, 69, 84>>, <<112, 111, 115, 116>>, <<80, 85, 84>>, <<80, 65, 84, 67, 72>>}

\* '/a/b', '/?q'
Urls == {<<47, 97, 47, 98>>, <<47, 63, 113>>}

\* req.headers
HeaderSets == {Obj("host" :> "localhost" @@ "accept" :> "*/*")}

\* '{"a":' and '1}'
Chunks == {<<123, 34, 97, 34, 58>>, <<49, 125>>}

\* What a handler may throw: Error('boom'), Error(''), {} and null.
Thrown ==
  {Obj("message" :> Str(<<98, 111, 111, 109>>)), Obj("message" :> Str(<<>>)),
   Obj(EmptyMap), Null}

\* What a handler may return: Reply.from('hi'), Reply.from({ x: 1 }, 500),
\* new Reply(undefined, { status: 204 }) and new Reply({}, { status: 200 }).
Replies ==
  {Reply_from(Str(<<104, 105>>), <<>>),
   Reply_from(Obj(<<[key |-> <<120>>, val |-> Num(1)]>>), <<500>>),
   NewReply(Undefined, 204, Undefined),
   NewReply(Obj(EmptyMap), 200, Undefined)}

\* How the promise of a handler settles.
Outcomes == {[t |-> "returns", v |-> x] : x \in Replies} \cup {[t |-> "throws", v |-> e] : e \in Thrown}

Pending == [t |-> "pending"]

(* -------------------------------- state ------------------------------- *)

VARIABLES
  routes,     \* HttpServer.routes
  registered, \* how many times on() has been called
  listening,  \* serve() has created a server
  sortedAt,   \* how many routes were registered when serve() last sorted them
  backlog,    \* how many requests the transport has yet to deliver
  req,        \* per request: the frame of handleRequest, the request body stream, and
              \* what the request has seen (routesSeen: the routes at dispatch;
              \* lateSeen: how many of them on() added after the last serve())
  res,        \* per request: the ServerResponse
  call,       \* a pure function applied on its own: the call
  ret         \* and what it returned

vars == <<routes, registered, listening, sortedAt, backlog, req, res, call, ret>>

NoCall == [fn |-> "none"]

\* A request the transport has not delivered yet.
IdleRequest ==
  [pc |-> "idle", rawMethod |-> <<>>, rawUrl |-> <<>>, headers |-> Undefined,
   method |-> <<>>, pathname |-> <<>>, search |-> <<>>,
   handler |-> Undefined, pathParams |-> Undefined, matchCalls |-> 0,
   stream |-> "paused", emitted |-> <<>>, result |-> Null,
   context |-> Undefined, handlerCalls |-> 0, outcome |-> Pending, rejected |-> FALSE,
   routesSeen |-> <<>>, lateSeen |-> 0]

Init ==
  /\ routes = <<>>
  /\ registered = 0
  /\ listening = FALSE
  /\ sortedAt = 0
  /\ backlog = 1
  /\ req = [r \in Requests |-> IdleRequest]
  /\ res = [r \in Requests |-> NewResponse]
  /\ call = NoCall
  /\ ret = Undefined

(* ------------------------------- actions ------------------------------ *)

\* on(path, handler)
on(path) ==
  /\ Len(routes) < MaxRoutes
  /\ routes' = Append(routes, [path |-> path, handler |-> Fn(registered + 1)])
  /\ registered' = registered + 1
  /\ UNCHANGED <<listening, sortedAt, backlog, req, res, call, ret>>

\* serve(port)
serve ==
  /\ routes' = sortRoutes(routes)
  /\ listening' = TRUE
  /\ sortedAt' = registered
  /\ UNCHANGED <<registered, backlog, req, res, call, ret>>

\* The frame once the context is built and the handler has been called.
invoke(q, data) ==
  [q EXCEPT !.pc = "handler",
            !.context = newContext(data, q.headers, q.method, q.pathname,
                                   q.pathParams, q.search),
            !.handlerCalls = @ + 1]

\* handleRequest(req, res), up to its first await or its return.
handleRequest(r, m, u, hd) ==
  /\ listening
  /\ backlog > 0
  /\ req[r].pc = "idle"
  /\ \A o \in Requests : o < r => req[o].pc # "idle"
  /\ backlog' = backlog - 1
  /\ LET method == toUpperCase(m)
         url == parseURL(u)
         pathname == IF Truthy(Str(url.pathname)) THEN url.pathname ELSE <<SLASH>>
         found == lookup(routes, pathname, 1, Obj(EmptyMap))
         q0 == [req[r] EXCEPT !.rawMethod = m, !.rawUrl = u, !.headers = hd,
                              !.method = method]
         q1 == [q0 EXCEPT !.pathname = pathname, !.search = url.search,
                          !.handler = found.handler, !.pathParams = found.pathParams,
                          !.matchCalls = found.calls, !.routesSeen = routes,
                          !.lateSeen = registered - sortedAt]
     IN  IF ~includes(supportedHttpMethods, method)
           THEN /\ res' = [res EXCEPT ![r] = end(writeHead(@, 405, Undefined).res)]
                /\ req' = [req EXCEPT ![r] = [q0 EXCEPT !.pc = "done"]]
         ELSE IF ~Truthy(found.handler)
           THEN /\ res' = [res EXCEPT ![r] = end(writeHead(@, 404, Undefined).res)]
                /\ req' = [req EXCEPT ![r] = [q1 EXCEPT !.pc = "done"]]
         ELSE IF method = POST \/ method = PUT
           THEN /\ req' = [req EXCEPT ![r] = [q1 EXCEPT !.pc = "readAll", !.stream = "flowing"]]
                /\ UNCHANGED res
         ELSE /\ req' = [req EXCEPT ![r] = invoke(q1, Null)]
              /\ UNCHANGED res
  /\ UNCHANGED <<routes, registered, listening, sortedAt, call, ret>>

\* 'data' with `result` declared once for all calls of readAll, not per call.
streamDataShared(r, chunk) ==
  /\ req[r].pc = "readAll"
  /\ req[r].stream = "flowing"
  /\ Len(req[r].emitted) < MaxChunks
  /\ req' = [o \in Requests |->
               IF o = r
                 THEN [req[o] EXCEPT !.result = onData(@, chunk), !.emitted = Append(@, chunk)]
               ELSE IF req[o].pc = "readAll"
                 THEN [req[o] EXCEPT !.result = onData(@, chunk)]
               ELSE req[o]]
  /\ UNCHANGED <<routes, registered, listening, sortedAt, backlog, res, call, ret>>

\* The body stream emits 'data'.
streamData(r, chunk) ==
  /\ req[r].pc = "readAll"
  /\ req[r].stream = "flowing"
  /\ Len(req[r].emitted) < MaxChunks
  /\ req' = [req EXCEPT ![r].result = onData(@, chunk), ![r].emitted = Append(@, chunk)]
  /\ UNCHANGED <<routes, registered, listening, sortedAt, backlog, res, call, ret>>

\* The body stream emits 'end': readAll resolves and handleRequest goes on to
\* build the context and call the handler.
streamEnd(r) ==
  /\ req[r].pc = "readAll"
  /\ req[r].stream = "flowing"
  /\ req' = [req EXCEPT ![r] = invoke([@ EXCEPT !.stream = "ended"], @.result)]
  /\ UNCHANGED <<routes, registered, listening, sortedAt, backlog, res, call, ret>>

\* readAll with a listener that resolves with what has arrived when the client
\* goes away.
streamAbortResolves(r) ==
  /\ req[r].pc = "readAll"
  /\ req[r].stream = "flowing"
  /\ req' = [req EXCEPT ![r] = invoke([@ EXCEPT !.stream = "aborted"], @.result)]
  /\ UNCHANGED <<routes, registered, listening, sortedAt, backlog, res, call, ret>>

\* The client goes away mid-body: 'aborted', 'error' or 'close', which readAll
\* does not listen for.
streamAbort(r) ==
  /\ req[r].pc = "readAll"
  /\ req[r].stream = "flowing"
  /\ req' = [req EXCEPT ![r].stream = "aborted"]
  /\ UNCHANGED <<routes, registered, listening, sortedAt, backlog, res, call, ret>>

\* The promise of the handler settles; handleRequest runs to its end.
handlerSettles(r, outcome) ==
  /\ req[r].pc = "handler"
  /\ LET done == respond(res[r], outcome)
     IN  /\ res' = [res EXCEPT ![r] = done.res]
         /\ req' = [req EXCEPT ![r].pc = "done", ![r].outcome = outcome,
                               ![r].rejected = done.rejected]
  /\ UNCHANGED <<routes, registered, listening, sortedAt, backlog, call, ret>>

Next ==
  \/ \E path \in Patterns : on(path)
  \/ serve
  \/ \E r \in Requests, m \in Methods, u \in Urls, hd \in HeaderSets : handleRequest(r, m, u, hd)
  \/ \E r \in Requests, chunk \in Chunks : streamData(r, chunk)
  \/ \E r \in Requests : streamEnd(r)
  \/ \E r \in Requests : streamAbort(r)
  \/ \E r \in Requests, outcome \in Outcomes : handlerSettles(r, outcome)

Spec == Init /\ [][Next]_vars

(* ----------------------- two requests in flight ----------------------- *)

\* 'GET', 'post'
ConcMethods == {<<71, 69, 84>>, <<112, 111, 115, 116>>}

\* '/a/b', '/a/c'
ConcUrls == {<<47, 97, 47, 98>>, <<47, 97, 47, 99>>}

ConcHeaderSets == {Obj("host" :> "localhost"), Obj("host" :> "example.org")}

\* The handler returns Reply.from('hi') or throws Error('boom').
ConcOutcomes ==
  {[t |-> "returns", v |-> Reply_from(Str(<<104, 105>>), <<>>)],
   [t |-> "throws", v |-> Obj("message" :> Str(<<98, 111, 111, 109>>))]}

\* new HttpServer(logger).on('/a/:x', handler).serve(port), and two requests on
\* their way.
ConcInit ==
  /\ routes = <<[path |-> <<47, 97, 47, 58, 120>>, handler |-> Fn(1)]>>
  /\ registered = 1
  /\ listening = TRUE
  /\ sortedAt = 1
  /\ backlog = 2
  /\ req = [r \in Requests |-> IdleRequest]
  /\ res = [r \in Requests |-> NewResponse]
  /\ call = NoCall
  /\ ret = Undefined

ConcNext ==
  \/ \E r \in Requests, m \in ConcMethods, u \in ConcUrls, hd \in ConcHeaderSets :
       handleRequest(r, m, u, hd)
  \/ \E r \in Requests, chunk \in Chunks : streamData(r, chunk)
  \/ \E r \in Requests : streamEnd(r)
  \/ \E r \in Requests : streamAbort(r)
  \/ \E r \in Requests, outcome \in ConcOutcomes : handlerSettles(r, outcome)

ConcSpec == ConcInit /\ [][ConcNext]_vars

(* ------------------ a handler writing to its context ------------------ *)

\* obj[prop] = value: refused when Object.freeze has been applied to obj itself.
setProperty(obj, prop, value) ==
  IF "frozen" \in DOMAIN obj /\ obj.frozen THEN obj
  ELSE [obj EXCEPT !.v = Put(@, prop, value)]

\* What a handler may try on the context it was given.
Writes == {"method", "pathname", "data", "pathParams.x", "headers.host", "data.fill"}

\* The context after the write `w`:
\*   context.method = 'X', context.pathname = '/', context.data = null,
\*   context.pathParams.x = '!', context.headers.host = 'evil', context.data.fill(0).
\* Object.freeze reaches the six properties of the context, not the objects they
\* refer to; data.fill on a null body throws and changes nothing.
written(ctx, w) ==
  CASE w = "method" -> setProperty(ctx, "method", <<88>>)
    [] w = "pathname" -> setProperty(ctx, "pathname", <<SLASH>>)
    [] w = "data" -> setProperty(ctx, "data", Null)
    [] w = "pathParams.x" ->
         [ctx EXCEPT !.v.pathParams = setProperty(@, <<120>>, <<33>>)]
    [] w = "headers.host" ->
         [ctx EXCEPT !.v.headers = setProperty(@, "host", "evil")]
    [] w = "data.fill" ->
         IF ctx.v.data = Null THEN ctx
         ELSE [ctx EXCEPT !.v.data = Buf([i \in 1..Len(@.v) |-> 0])]

\* The handler, while it runs, writes to the context. The frame's own fields
\* (headers, pathParams, result) keep the values the context was built from.
handlerWrites(r, w) ==
  /\ req[r].pc = "handler"
  /\ req' = [req EXCEPT ![r].context = written(@, w)]
  /\ UNCHANGED <<routes, registered, listening, sortedAt, backlog, res, call, ret>>

CtxNext ==
  \/ Next
  \/ \E r \in Requests, w \in Writes : handlerWrites(r, w)

CtxSpec == Init /\ [][CtxNext]_vars

(* ----------------------- Reply.from on its own ------------------------ *)

\* 'h', 'i', '"', U+00E9 and U+20AC.
Alphabet == {104, 105, 34, 233, 8364}

Strings == UNION {[1..k -> Alphabet] : k \in 0..MaxStrLen}

\* {}, { x: 1 }, { a: 'h"', n: 10 }
Objects ==
  {<<>>, <<[key |-> <<120>>, val |-> Num(1)]>>,
   <<[key |-> <<97>>, val |-> Str(<<104, 34>>)], [key |-> <<110>>, val |-> Num(10)]>>}

\* The argument lists of Reply.from: a payload, then nothing or a status.
FromCalls ==
  {[fn |-> "Reply.from", obj |-> o, rest |-> s] :
     o \in {Str(x) : x \in Strings} \cup {Obj(x) : x \in Objects},
     s \in {<<>>, <<200>>, <<201>>, <<404>>}}

FromInit ==
  /\ routes = <<>>
  /\ registered = 0
  /\ listening = FALSE
  /\ sortedAt = 0
  /\ backlog = 0
  /\ req = [r \in Requests |-> IdleRequest]
  /\ res = [r \in Requests |-> NewResponse]
  /\ call \in FromCalls
  /\ ret = Undefined

\* The call returns.
applyReply_from ==
  /\ call.fn = "Reply.from"
  /\ ret = Undefined
  /\ ret' = Reply_from(call.obj, call.rest)
  /\ UNCHANGED <<routes, registered, listening, sortedAt, backlog, req, res, call>>

\* The caller adds a property z: 0 to the object it passed, after the call.
mutatePayload ==
  /\ call.fn = "Reply.from"
  /\ call.obj.t = "object"
  /\ "was" \notin DOMAIN call
  /\ ret # Undefined
  /\ call' = [fn |-> call.fn, rest |-> call.rest, was |-> call.obj,
              obj |-> Obj(Append(call.obj.v, [key |-> <<122>>, val |-> Num(0)]))]
  /\ UNCHANGED <<routes, registered, listening, sortedAt, backlog, req, res, ret>>

FromNext == applyReply_from \/ mutatePayload

FromSpec == FromInit /\ [][FromNext]_vars

(* --------------------- pathToMatcher on its own ----------------------- *)

\* Longest pattern and longest pathname given to the matcher in MatchSpec.
MaxPathLen == 4

\* '/', ':' and 'a' for patterns; '/', 'A' and 'a' for pathnames.
PatternChars == {47, 58, 97}

PathnameChars == {47, 65, 97}

MatchCalls ==
  {[fn |-> "match", path |-> p, pathname |-> c] :
     p \in UNION {[1..k -> PatternChars] : k \in 0..MaxPathLen},
     c \in UNION {[1..k -> PathnameChars] : k \in 0..MaxPathLen}}

MatchInit ==
  /\ routes = <<>>
  /\ registered = 0
  /\ listening = FALSE
  /\ sortedAt = 0
  /\ backlog = 0
  /\ req = [r \in Requests |-> IdleRequest]
  /\ res = [r \in Requests |-> NewResponse]
  /\ call \in MatchCalls
  /\ ret = Undefined

\* The matcher built from call.path is applied to call.pathname.
applyMatcher ==
  /\ call.fn = "match"
  /\ ret = Undefined
  /\ ret' = pathToMatcher(call.path, call.pathname)
  /\ UNCHANGED <<routes, registered, listening, sortedAt, backlog, req, res, call>>

MatchNext == applyMatcher

MatchSpec == MatchInit /\ [][MatchNext]_vars

(* ------------------------------- claims ------------------------------- *)

\* The events of one kind on a response's wire.
wireOps(rs, op) == SelectSeq(rs.wire, LAMBDA e : e.op = op)

\* How many times res.end() has been called.
Finalized(r) == Len(wireOps(res[r], "end"))

\* The body bytes written so far.
bodyBytes(r) ==
  LET w == wireOps(res[r], "write") IN concatAll([i \in 1..Len(w) |-> w[i].bytes])

Dispatched(r) == req[r].pc # "idle"

\* OPTIONS, GET, POST, PUT, DELETE
AllowedMethods ==
  {<<79, 80, 84, 73, 79, 78, 83>>, <<71, 69, 84>>, <<80, 79, 83, 84>>, <<80, 85, 84>>,
   <<68, 69, 76, 69, 84, 69>>}

AllowedMethod(r) == toUpperCase(req[r].rawMethod) \in AllowedMethods

\* A step that takes request r further.
progress(r) ==
  \/ streamEnd(r)
  \/ \E chunk \in Chunks : streamData(r, chunk)
  \/ \E outcome \in Outcomes : handlerSettles(r, outcome)

\* C1 as stated: every request is finalized exactly once on every path, the
\* body-acquisition step included: a request is never finalized twice and is never
\* left unfinalized with nothing left that could take it further.
C1_EventuallyFinalizedOnce ==
  \A r \in Requests :
    Dispatched(r) => /\ Finalized(r) <= 1
                     /\ Finalized(r) = 1 \/ ENABLED progress(r)

\* C1 (amended): res.end() is never called twice; it has been called exactly once,
\* as the last thing on the wire, exactly when handleRequest has run to its end
\* (405, 404, handler success, handler failure, a catch block that throws); a request
\* still waiting for its body or its handler has not been finalized.
C1_FinalizedOnceAtReturn ==
  \A r \in Requests :
    /\ Finalized(r) <= 1
    /\ req[r].pc = "done" <=> Finalized(r) = 1
    /\ Finalized(r) = 1 => res[r].wire[Len(res[r].wire)] = EndEv

\* A request whose catch block threw (the handler threw null) and that was
\* finalized by the finally block alone.
C1_Witness ==
  \E r \in Requests : req[r].pc = "done" /\ req[r].rejected /\ Finalized(r) = 1

\* C2: a request whose uppercased method is outside the allowed set is answered
\* 405 with no body and finalized, with no matcher run, the body stream left
\* untouched and no handler called.
C2_MethodNotAllowed ==
  \A r \in Requests :
    Dispatched(r) /\ ~AllowedMethod(r) =>
      /\ req[r].pc = "done"
      /\ res[r].wire = <<HeadEv(405, Undefined), EndEv>>
      /\ req[r].matchCalls = 0
      /\ req[r].stream = "paused" /\ req[r].emitted = <<>>
      /\ req[r].handlerCalls = 0 /\ req[r].context = Undefined

\* PATCH sent to a path that a registered route matches.
C2_Witness ==
  \E r \in Requests :
    /\ req[r].pc = "done"
    /\ req[r].rawMethod = <<80, 65, 84, 67, 72>>
    /\ \E i \in 1..Len(routes) :
         pathToMatcher(routes[i].path, parseURL(req[r].rawUrl).pathname) # Null

\* The entries of the route list the request saw whose matcher succeeds.
Matching(q) ==
  {i \in 1..Len(q.routesSeen) : pathToMatcher(q.routesSeen[i].path, q.pathname) # Null}

\* C3: with an allowed method, a pathname no route matches is answered 404 and
\* finalized with the body stream untouched and no handler called; a pathname
\* some route matches selects exactly one matching entry, whose handler is called
\* once (when the body, if any, has been read) and never more.
C3_NotFoundOrOneHandler ==
  \A r \in Requests :
    Dispatched(r) /\ AllowedMethod(r) =>
      LET q == req[r]
      IN  IF Matching(q) = {}
            THEN /\ q.pc = "done"
                 /\ res[r].wire = <<HeadEv(404, Undefined), EndEv>>
                 /\ q.stream = "paused" /\ q.emitted = <<>>
                 /\ q.handlerCalls = 0 /\ q.context = Undefined
                 /\ q.handler = Undefined
          ELSE /\ \E i \in Matching(q) : q.handler = q.routesSeen[i].handler
               /\ Cardinality({i \in 1..Len(q.routesSeen) :
                                 q.routesSeen[i].handler = q.handler}) = 1
               /\ q.handlerCalls = IF q.pc \in {"handler", "done"} THEN 1 ELSE 0

\* A POST to a pathname that none of the registered routes matches.
C3_Witness ==
  \E r \in Requests :
    /\ req[r].pc = "done"
    /\ req[r].method = POST
    /\ req[r].routesSeen # <<>>
    /\ Matching(req[r]) = {}

\* Where the selected handler sits in the route list the request saw.
Selected(q) == CHOOSE i \in 1..Len(q.routesSeen) : q.routesSeen[i].handler = q.handler

\* C4: with every route registered before serve(), the selected entry matches
\* the pathname and no matching entry has a longer raw pattern string: the
\* handler is that of the first match in descending pattern length.
C4_LongestPatternFirst ==
  \A r \in Requests :
    LET q == req[r]
    IN  Dispatched(r) /\ AllowedMethod(r) /\ Matching(q) # {} /\ q.lateSeen = 0 =>
          /\ Selected(q) \in Matching(q)
          /\ \A i \in Matching(q) :
               Len(q.routesSeen[i].path) <= Len(q.routesSeen[Selected(q)].path)

\* '/a/b' registered first and '/a/:x' second, both before serve(): a request to
\* '/a/b' has been handed to the handler of '/a/:x' with x bound to 'b'.
C4_Witness ==
  \E r \in Requests :
    LET q == req[r]
    IN  /\ q.pathname = <<47, 97, 47, 98>>
        /\ q.lateSeen = 0
        /\ \E i, j \in 1..Len(q.routesSeen) :
             /\ q.routesSeen[i] = [path |-> <<47, 97, 47, 98>>, handler |-> Fn(1)]
             /\ q.routesSeen[j] = [path |-> <<47, 97, 47, 58, 120>>, handler |-> Fn(2)]
        /\ q.handler = Fn(2)
        /\ q.handlerCalls = 1
        /\ q.context.v.pathParams = Obj(<<120>> :> <<98>>)

\* C5: among the matching entries whose pattern is as long as the selected one's,
\* the selected one was registered first; and every on() call has added an entry
\* of its own (none replaced, none dropped by the sort).
C5_TiesKeepRegistrationOrder ==
  /\ Len(routes) = registered
  /\ \A k \in 1..registered : \E i \in 1..Len(routes) : routes[i].handler = Fn(k)
  /\ \A r \in Requests :
       LET q == req[r]
       IN  Dispatched(r) /\ AllowedMethod(r) /\ Matching(q) # {} =>
             \A i \in Matching(q) :
               Len(q.routesSeen[i].path) = Len(q.routesSeen[Selected(q)].path)
                 => q.routesSeen[i].handler.v >= q.handler.v

\* Two matching entries of equal pattern length, sorted by serve(), the one
\* registered first selected and called.
C5_Witness ==
  \E r \in Requests :
    LET q == req[r]
    IN  /\ q.handlerCalls = 1
        /\ q.lateSeen = 0
        /\ \E i, j \in Matching(q) :
             /\ i # j
             /\ Len(q.routesSeen[i].path) = Len(q.routesSeen[j].path)
             /\ q.handler = q.routesSeen[i].handler
             /\ q.routesSeen[i].handler.v < q.routesSeen[j].handler.v

\* The handler threw, and what it threw.
Failed(r) == req[r].pc = "done" /\ req[r].outcome.t = "throws"

\* The thrown value carries a non-empty message.
HasMessage(err) ==
  err.t = "object" /\ "message" \in DOMAIN err.v /\ err.v["message"].t = "string"
  /\ err.v["message"].v # <<>>

\* C6: a handler failing with a non-empty message m is answered with status 500
\* (no headers), the bytes of m as the body, and finalization; nothing else
\* is written.
C6_FailureMessage ==
  \A r \in Requests :
    Failed(r) /\ HasMessage(req[r].outcome.v) =>
      res[r].wire = <<HeadEv(500, Undefined),
                      WriteEv(Utf8(req[r].outcome.v.v["message"].v)), EndEv>>

\* The handler threw Error('boom') and the body is 'boom'.
C6_Witness ==
  \E r \in Requests :
    /\ Failed(r)
    /\ req[r].outcome.v = Obj("message" :> Str(<<98, 111, 111, 109>>))
    /\ bodyBytes(r) = <<98, 111, 111, 109>>

\* C7 as stated: a handler failing with a missing or empty message is answered
\* with status 500 and no body bytes.
C7_EmptyBody ==
  \A r \in Requests :
    Failed(r) /\ ~HasMessage(req[r].outcome.v) =>
      /\ wireOps(res[r], "head") = <<HeadEv(500, Undefined)>>
      /\ bodyBytes(r) = <<>>

\* C7 (amended): a handler failing with a missing or empty message is answered
\* with status 500 and the body 'unknown error'; the body is empty only when
\* the thrown value is null or undefined.
C7_UnknownError ==
  \A r \in Requests :
    Failed(r) /\ ~HasMessage(req[r].outcome.v) =>
      /\ wireOps(res[r], "head") = <<HeadEv(500, Undefined)>>
      /\ bodyBytes(r) =
           IF req[r].outcome.v.t \in {"null", "undefined"} THEN <<>>
           ELSE <<117, 110, 107, 110, 111, 119, 110, 32, 101, 114, 114, 111, 114>>
      /\ Finalized(r) = 1

\* The handler threw Error('') and the body is 'unknown error'.
C7_Witness ==
  \E r \in Requests :
    /\ Failed(r)
    /\ req[r].outcome.v = Obj("message" :> Str(<<>>))
    /\ Len(bodyBytes(r)) = 13

\* C8: on a matched POST or PUT the handler is called, and the context built,
\* only once the body stream has ended, and the body of the context is the
\* chunks the stream emitted, concatenated in order.
C8_BodyReassembled ==
  \A r \in Requests :
    LET q == req[r]
    IN  Dispatched(r) /\ q.method \in {POST, PUT} /\ q.handler # Undefined =>
          /\ q.handlerCalls > 0 => q.stream = "ended"
          /\ q.stream # "ended" => q.context = Undefined
          /\ q.context # Undefined /\ Len(q.emitted) >= 1 =>
               q.context.v.data = Buf(concatAll(q.emitted))

\* '{"a":' then '1}' reached the handler as '{"a":1}'.
C8_Witness ==
  \E r \in Requests :
    /\ req[r].emitted = << <<123, 34, 97, 34, 58>>, <<49, 125>> >>
    /\ req[r].handlerCalls = 1
    /\ req[r].context # Undefined
    /\ req[r].context.v.data = Buf(<<123, 34, 97, 34, 58, 49, 125>>)

\* The handler returned a Reply.
Succeeded(r) == req[r].pc = "done" /\ req[r].outcome.t = "returns"

\* C9: after a handler returned a Reply the wire holds the status and headers of
\* the Reply, then its bytes if it has a byte payload, then the finalization,
\* and nothing else.
C9_ReplyOnTheWire ==
  \A r \in Requests :
    Succeeded(r) =>
      LET reply == req[r].outcome.v
      IN  res[r].wire =
            <<HeadEv(reply.status, reply.headers)>>
            \o (IF reply.data.t = "buffer" THEN <<WriteEv(reply.data.v)>> ELSE <<>>)
            \o <<EndEv>>

\* A handler returned Reply.from({ x: 1 }, 500): status 500 is its own, and the
\* wire holds the head, the payload and the end.
C9_Witness ==
  \E r \in Requests :
    /\ Succeeded(r)
    /\ req[r].outcome.v.status = 500
    /\ req[r].outcome.v.data.t = "buffer"
    /\ Len(res[r].wire) = 3

\* C10: Reply.from of a text with no status gives status 200, the UTF-8 bytes of
\* the text and the header Content-Type: text/plain; charset=utf-8.
C10_TextReply ==
  call.fn = "Reply.from" /\ call.obj.t = "string" /\ call.rest = <<>> /\ ret # Undefined =>
    /\ ret.status = 200
    /\ ret.data = Buf(Utf8(call.obj.v))
    /\ ret.headers = Obj("Content-Type" :> "text/plain; charset=utf-8")

\* The payload as it was when Reply.from was called.
Passed == IF "was" \in DOMAIN call THEN call.was ELSE call.obj

\* C11: Reply.from of an object gives the given status (200 when none is given),
\* the header Content-Type: application/json; charset=utf-8, and as data the
\* UTF-8 bytes of the JSON text of the object as it was at the call, whatever
\* happens to the object afterwards; { x: 1 } gives the bytes of {"x":1}.
C11_JsonReply ==
  call.fn = "Reply.from" /\ Passed.t = "object" /\ ret # Undefined =>
    /\ ret.status = (IF call.rest = <<>> THEN 200 ELSE call.rest[1])
    /\ ret.headers = Obj("Content-Type" :> "application/json; charset=utf-8")
    /\ ret.data = Buf(Utf8(JSONstringify(Passed.v)))
    /\ Passed.v = <<[key |-> <<120>>, val |-> Num(1)]>> =>
         ret.data = Buf(<<123, 34, 120, 34, 58, 49, 125>>)

\* Reply.from({ x: 1 }) has returned the bytes of {"x":1} with status 200, and
\* the object has been changed since.
C11_Witness ==
  /\ call.fn = "Reply.from"
  /\ "was" \in DOMAIN call
  /\ call.was = Obj(<<[key |-> <<120>>, val |-> Num(1)]>>)
  /\ call.rest = <<>>
  /\ ret # Undefined
  /\ ret.status = 200
  /\ ret.data = Buf(<<123, 34, 120, 34, 58, 49, 125>>)

\* The non-empty '/'-separated segments of s, read off its characters: a
\* segment starts at a non-slash that begins s or follows a slash, and runs up to
\* the next slash or the end.
SegmentsOf(s) ==
  LET starts == {i \in 1..Len(s) : s[i] # 47 /\ (i = 1 \/ s[i - 1] = 47)}
      stop(i) == CHOOSE j \in i..Len(s) :
                   /\ \A k \in i..j : s[k] # 47
                   /\ j = Len(s) \/ s[j + 1] = 47
      nth(n) == CHOOSE i \in starts : Cardinality({k \in starts : k < i}) = n - 1
  IN  [n \in 1..Cardinality(starts) |-> SubSeq(s, nth(n), stop(nth(n)))]

\* A named segment: one that begins with ':'.
Named(seg) == seg[1] = 58

Matched == call.fn = "match" /\ ret # Undefined

\* C12: for a pattern of literal segments only, the matcher succeeds exactly
\* when the pathname has the same non-empty segments as the pattern, and then
\* returns the empty mapping; a pattern of no segments matches exactly the
\* pathnames of no segments.
C12_LiteralPatterns ==
  Matched =>
    LET ps == SegmentsOf(call.path)
        cs == SegmentsOf(call.pathname)
    IN  (\A i \in 1..Len(ps) : ~Named(ps[i])) =>
          /\ ret # Null <=> cs = ps
          /\ ret # Null => ret = Obj(EmptyMap)
          /\ ps = <<>> => (ret # Null <=> cs = <<>>)

\* A pattern of the segments 'a' and 'a' has matched a longer pathname of the
\* same segments: the extra slashes are ignored and the mapping is empty.
C12_Witness ==
  /\ Matched
  /\ SegmentsOf(call.path) = << <<97>>, <<97>> >>
  /\ call.pathname # call.path
  /\ Len(call.pathname) > Len(call.path)
  /\ ret = Obj(EmptyMap)

\* C13: for a pattern with named segments of distinct names, the matcher
\* succeeds exactly when pattern and pathname have as many segments and every
\* literal segment of the pattern equals the pathname's segment at its place; the
\* mapping then has one key per named segment, its name without the ':', bound to
\* the pathname's segment at that place.
C13_NamedPatterns ==
  Matched =>
    LET ps == SegmentsOf(call.path)
        cs == SegmentsOf(call.pathname)
        named == {i \in 1..Len(ps) : Named(ps[i])}
    IN  named # {} /\ (\A i, j \in named : ps[i] = ps[j] => i = j) =>
          /\ ret # Null <=>
               /\ Len(cs) = Len(ps)
               /\ \A i \in 1..Len(ps) : i \notin named => ps[i] = cs[i]
          /\ ret # Null =>
               /\ ret.t = "object"
               /\ DOMAIN ret.v = {Tail(ps[i]) : i \in named}
               /\ \A i \in named : ret.v[Tail(ps[i])] = cs[i]

\* A pattern of a literal and a named segment has matched, the name bound to
\* the pathname's second segment.
C13_Witness ==
  /\ Matched
  /\ SegmentsOf(call.path) = << <<97>>, <<58, 97>> >>
  /\ SegmentsOf(call.pathname) = << <<97>>, <<65>> >>
  /\ ret = Obj(<<97>> :> <<65>>)

\* The entries of the route list the request saw whose matcher succeeds with
\* the empty mapping.
MatchingEmpty(q) ==
  {i \in 1..Len(q.routesSeen) :
     pathToMatcher(q.routesSeen[i].path, q.pathname) = Obj(EmptyMap)}

\* C14: a match that yields the empty mapping counts as a match: the request
\* is not answered 404, the entry is not passed over for a later one, and when it
\* is the selected entry its handler is the one called, with empty pathParams.
C14_EmptyMatchIsAMatch ==
  \A r \in Requests :
    LET q == req[r]
    IN  Dispatched(r) /\ AllowedMethod(r) =>
          \A i \in MatchingEmpty(q) :
            /\ q.handler # Undefined
            /\ Selected(q) <= i
            /\ q.pc = "done" => q.handlerCalls = 1 /\ q.outcome # Pending
            /\ Selected(q) = i =>
                 /\ q.pathParams = Obj(EmptyMap)
                 /\ q.context # Undefined => q.context.v.pathParams = Obj(EmptyMap)

\* '/' is registered and '/?q' requested: the handler of '/' has been called
\* with empty pathParams and its reply written.
C14_Witness ==
  \E r \in Requests :
    LET q == req[r]
    IN  /\ q.pc = "done"
        /\ q.rawUrl = <<47, 63, 113>>
        /\ q.pathname = <<47>>
        /\ q.handlerCalls = 1
        /\ q.routesSeen[Selected(q)].path = <<47>>
        /\ q.context.v.pathParams = Obj(EmptyMap)
        /\ q.outcome.t = "returns"
        /\ res[r].wire[1] = HeadEv(q.outcome.v.status, q.outcome.v.headers)

\* C15: once the handler has been given the context, nothing the handler does
\* changes it: method, pathname, pathParams and its entries, the query, the headers
\* and the body keep the values they had when the handler was called.
C15_ContextImmutable ==
  \A r \in Requests :
    LET q == req[r]
    IN  q.context # Undefined =>
          /\ q.context.v.method = q.method
          /\ q.context.v.pathname = q.pathname
          /\ q.context.v.pathParams = q.pathParams
          /\ q.context.v.searchParams = q.search
          /\ q.context.v.headers = q.headers
          /\ q.context.v.data = (IF q.method \in {POST, PUT} THEN q.result ELSE Null)

\* The last character of the request target: what '/a/:x' binds x to.
LastSegment(q) == <<q.rawUrl[Len(q.rawUrl)]>>

\* C16: with two requests in flight, whatever the interleaving of their steps,
\* the body collected for a request is made of its own chunks in order, its context
\* holds its own method, pathname, parameters, headers and body, and its response
\* stays untouched until its own handler has settled and then carries the outcome
\* of its own handler, finalized once.
C16_RequestsIsolated ==
  \A r \in Requests :
    LET q == req[r]
    IN  Dispatched(r) =>
          /\ q.result = (IF q.emitted = <<>> THEN Null ELSE Buf(concatAll(q.emitted)))
          /\ q.context # Undefined =>
               q.context.v =
                 [method |-> toUpperCase(q.rawMethod), pathname |-> q.rawUrl,
                  pathParams |-> Obj(<<120>> :> LastSegment(q)),
                  searchParams |-> <<>>, headers |-> q.headers,
                  data |-> IF toUpperCase(q.rawMethod) = POST /\ q.emitted # <<>>
                             THEN Buf(concatAll(q.emitted)) ELSE Null]
          /\ q.pc # "done" => res[r] = NewResponse
          /\ q.pc = "done" =>
               res[r].wire =
                 IF q.outcome.t = "returns"
                   THEN <<HeadEv(200, q.outcome.v.headers), WriteEv(<<104, 105>>), EndEv>>
                 ELSE <<HeadEv(500, Undefined), WriteEv(<<98, 111, 111, 109>>), EndEv>>

\* Request 2 has been answered from its own body and headers while request 1,
\* dispatched before it with other headers, is still in the middle of a different
\* body.
C16_Witness ==
  /\ req[1].pc = "readAll" /\ Len(req[1].emitted) = 1
  /\ req[2].pc = "done" /\ Len(req[2].emitted) = 2
  /\ req[2].emitted[1] # req[1].emitted[1]
  /\ req[1].headers # req[2].headers
  /\ req[1].rawUrl # req[2].rawUrl
  /\ req[2].context.v.data = Buf(concatAll(req[2].emitted))
  /\ Finalized(2) = 1 /\ Finalized(1) = 0

\* C17: as long as the body stream of a request has not delivered its end, the
\* handler has not been called, no status has been written and the response is not
\* finalized; and once the stream can no longer deliver it, the request stays
\* there: no step takes it further.
C17_NoEndNoResponse ==
  \A r \in Requests :
    LET q == req[r]
    IN  /\ q.stream \in {"flowing", "aborted"} =>
             /\ q.pc = "readAll"
             /\ q.handlerCalls = 0 /\ q.context = Undefined
             /\ res[r] = NewResponse
        /\ q.stream = "aborted" => ~ENABLED progress(r)

\* A PUT whose client went away after one chunk of the body.
C17_Witness ==
  \E r \in Requests :
    /\ req[r].method = PUT
    /\ req[r].stream = "aborted"
    /\ Len(req[r].emitted) = 1
    /\ req[r].handler # Undefined
    /\ Finalized(r) = 0

\* The route list the request saw falls from longer to shorter patterns between
\* the places lo and hi.
Descending(q, lo, hi) ==
  \A i, j \in lo..hi : i < j => Len(q.routesSeen[i].path) >= Len(q.routesSeen[j].path)

\* C18 as stated: whatever on() and serve() calls came before, the route list
\* a request is dispatched against is in descending order of pattern length, routes
\* registered after serve() included.
C18_SortedAtDispatch ==
  \A r \in Requests :
    Dispatched(r) => Descending(req[r], 1, Len(req[r].routesSeen))

\* C18 (amended): the sort is applied by serve() alone. At dispatch the routes
\* registered before the last serve() come first, in descending order of pattern
\* length; the routes registered since follow them in the order of their
\* registration, whatever their length.
C18_SortedUpToLastServe ==
  \A r \in Requests :
    LET q == req[r]
        n == Len(q.routesSeen) - q.lateSeen
    IN  Dispatched(r) /\ AllowedMethod(r) =>
          /\ Descending(q, 1, n)
          /\ \A i \in 1..n : q.routesSeen[i].handler.v <= n
          /\ \A j \in (n + 1)..Len(q.routesSeen) : q.routesSeen[j].handler = Fn(j)

\* on('/a/b'), serve(), on('/a/:x'): a request to '/a/b' has found the shorter
\* pattern first and has been given to its handler.
C18_Witness ==
  \E r \in Requests :
    LET q == req[r]
    IN  /\ q.routesSeen = <<[path |-> <<47, 97, 47, 98>>, handler |-> Fn(1)],
                            [path |-> <<47, 97, 47, 58, 120>>, handler |-> Fn(2)]>>
        /\ q.lateSeen = 1
        /\ q.pathname = <<47, 97, 47, 98>>
        /\ q.handler = Fn(1)
        /\ q.handlerCalls = 1

C20_EmptyBodyIsEmptyBuffer ==
  \A r \in Requests :
    LET q == req[r]
    IN  q.method \in {POST, PUT} /\ q.stream = "ended" /\ q.emitted = <<>> =>
          /\ q.handlerCalls = 1
          /\ q.context # Undefined
          /\ q.context.v.data = Buf(<<>>)

====
